---- MODULE Spec2Model ----
(***************************************************************************)
(* A model of ccdproc/ccddata.py: the CCDData value object ("Frame"), its  *)
(* arithmetic methods, and its FITS bridge (to_hdu, fits_ccddata_reader,   *)
(* fits_ccddata_writer).                                                   *)
(*                                                                         *)
(* Five specifications share the module:                                   *)
(*   SpecArith  add / subtract / multiply / divide on two operand Frames   *)
(*   SpecFrame  construction and the property setters of Frames            *)
(*   SpecIO     to_hdu, the writer and the reader                          *)
(*   SpecRead   the reader alone, on files of other origin                 *)
(*   SpecMeta   _insert_in_metadata_fits_safe on a Frame's metadata        *)
(*                                                                         *)
(* Conventions.  Python's None is the string "None" in string-valued       *)
(* fields (unit, wcs, names) and the empty tuple <<>> in optional          *)
(* array-valued fields (an array x that is present is <<x>>).  Numbers are *)
(* exact rationals <<n, d>> in lowest terms with d > 0, so that unit       *)
(* conversion (100 cm = 1 m) and true division are computed, not assumed.  *)
(* Arrays are one-dimensional: a shape is a length.                        *)
(***************************************************************************)
EXTENDS Integers, Sequences, FiniteSets, TLC

VARIABLES
    ops,        \* SpecArith: the two operand Frames, id -> Frame record
    capable,    \* SpecArith: hasattr(self, '_arithmetics_wcs') of this build
    arith,      \* SpecArith: the last arithmetic call and what it returned
    frames,     \* SpecFrame: the Frames, id -> Frame record (or not built)
    uncs,       \* SpecFrame: the uncertainty objects, id -> object
    lastSet,    \* SpecFrame: the last constructor / setter call and its outcome
    ccd,        \* SpecIO: the Frame that is serialized; SpecMeta: the Frame
                \* whose metadata is written
    file,       \* SpecIO: the FITS file on disk (a list of HDUs), or missing
    hduOut,     \* SpecIO: the last to_hdu / writer call and its outcome
    rd,         \* SpecIO: the reader call in progress or finished
    ins         \* SpecMeta: the last _insert_in_metadata_fits_safe call

vars == <<ops, capable, arith, frames, uncs, lastSet, ccd, file, hduOut, rd, ins>>

arithVars == <<ops, capable, arith>>
frameVars == <<frames, uncs, lastSet>>
ioVars == <<ccd, file, hduOut, rd>>
metaVars == <<ins>>

(***************************************************************************)
(* Optional values and exact numbers                                       *)
(***************************************************************************)
None == "None"

NoArray == <<>>

Some(x) == <<x>>

Abs(n) == IF n < 0 THEN -n ELSE n

RECURSIVE GCD(_, _)
GCD(a, b) == IF b = 0 THEN a ELSE GCD(b, a % b)

\* the rational n/d in lowest terms, d # 0
Rat(n, d) ==
    LET s == IF d < 0 THEN -1 ELSE 1
        g == GCD(Abs(n), Abs(d))
    IN  <<(s * n) \div g, (s * d) \div g>>

Num(n) == <<n, 1>>

RAdd(a, b) == Rat(a[1] * b[2] + b[1] * a[2], a[2] * b[2])

RSub(a, b) == Rat(a[1] * b[2] - b[1] * a[2], a[2] * b[2])

RMul(a, b) == Rat(a[1] * b[1], a[2] * b[2])

RDiv(a, b) == Rat(a[1] * b[2], a[2] * b[1])

\* the lengths of the shortest and of the longest array the model draws
MinLen == 2

MaxLen == 3

(***************************************************************************)
(* Units (astropy.units, used through u.Unit, Quantity.to and the ufuncs). *)
(* A base unit is a string; the unit of a result is <<tag, u1, u2>>.       *)
(***************************************************************************)
Dimensionless == "dimensionless"

FrameUnits == {"adu", "m", Dimensionless}

ScalarUnits == {"adu", "m", "cm", Dimensionless}

\* the size of a unit in units of its physical type's smallest member
UnitScale == [u \in ScalarUnits |-> IF u = "m" THEN 100 ELSE 1]

PhysType == [u \in ScalarUnits |-> IF u \in {"m", "cm"} THEN "length" ELSE u]

Convertible(from, to) == PhysType[from] = PhysType[to]

\* Quantity(v, from).to(to).value, for convertible units
ToUnit(v, from, to) == RMul(v, Rat(UnitScale[from], UnitScale[to]))

BaseUnit(u) == <<"base", u, "-">>

MulUnit(u1, u2) ==
    IF u2 = Dimensionless THEN BaseUnit(u1)
    ELSE IF u1 = Dimensionless THEN BaseUnit(u2)
    ELSE <<"mul", u1, u2>>

DivUnit(u1, u2) ==
    IF u2 = Dimensionless \/ u1 = u2
    THEN BaseUnit(IF u1 = u2 THEN Dimensionless ELSE u1)
    ELSE <<"div", u1, u2>>

(***************************************************************************)
(* Element-wise array operations (numpy ufuncs with broadcasting)          *)
(***************************************************************************)
OpNames == {"add", "subtract", "multiply", "divide"}

ApplyOp(op, x, y) ==
    CASE op = "add" -> RAdd(x, y)
      [] op = "subtract" -> RSub(x, y)
      [] op = "multiply" -> RMul(x, y)
      [] op = "divide" -> RDiv(x, y)

\* operation(array, scalar)
MapScalar(op, a, c) == [i \in 1..Len(a) |-> ApplyOp(op, a[i], c)]

Broadcastable(a, b) == Len(a) = Len(b) \/ Len(a) = 1 \/ Len(b) = 1

Max(m, n) == IF m > n THEN m ELSE n

\* operation(array, array), for broadcastable shapes
MapArrays(op, a, b) ==
    [i \in 1..Max(Len(a), Len(b)) |->
        ApplyOp(op, a[IF Len(a) = 1 THEN 1 ELSE i], b[IF Len(b) = 1 THEN 1 ELSE i])]

(***************************************************************************)
(* SpecArith: state                                                        *)
(***************************************************************************)
OperandIds == {1, 2}

\* bool(x) of a coordinate mapping: a WCS object is true, None is false
Truthy(w) == w # None

NoResult ==
    [data |-> <<>>, unit |-> BaseUnit(None), wcs |-> None, unc |-> NoArray,
     mask |-> NoArray, meta |-> "-"]

NoScalar == [type |-> "none", value |-> Num(0), unit |-> None]

\* what `other` may be when it is not a Frame
Scalars ==
    {[type |-> "number", value |-> Num(2), unit |-> None],
     [type |-> "number", value |-> Num(3), unit |-> None],
     [type |-> "quantity", value |-> Num(100), unit |-> "cm"],
     [type |-> "quantity", value |-> Num(2), unit |-> "m"],
     [type |-> "quantity", value |-> Num(2), unit |-> "adu"],
     [type |-> "quantity", value |-> Num(2), unit |-> Dimensionless],
     [type |-> "other", value |-> Num(0), unit |-> None]}

\* the array <<1, 2, ..., n>>
Ramp(n) == [i \in 1..n |-> Num(i)]

\* the data arrays the operand Frames are drawn from
ArithData == {Ramp(n) : n \in MinLen..MaxLen}

Policies == {None, "first_found", "custom"}

NoCall ==
    [kind |-> "none", op |-> "-", self |-> 0, other |-> 0, scalar |-> NoScalar,
     policy |-> "-", pre |-> <<>>, status |-> "none", err |-> "-",
     res |-> NoResult]

\* the operands are Frames that were constructed: each has a unit, and an
\* uncertainty, when it has one, of the shape of its data
ArithFrames(units, wcss, withUnc) ==
    UNION {{[data |-> d, unit |-> un, wcs |-> w, unc |-> uc,
             mask |-> Some([i \in 1..Len(d) |-> i = 1]), meta |-> "meta"] :
                un \in units, w \in wcss,
                uc \in {NoArray} \cup {Some(Ramp(Len(d))) : x \in withUnc}} :
           d \in ArithData}

ArithInit ==
    /\ \E a \in ArithFrames(FrameUnits, {None, "RA"}, {TRUE}),
          b \in ArithFrames({"adu", "m"}, {None, "DEC"}, {}) :
            ops = [i \in OperandIds |-> IF i = 1 THEN a ELSE b]
    /\ capable \in BOOLEAN
    /\ arith = NoCall

(***************************************************************************)
(* Frame (op) Frame: NDDataArray.add / subtract / multiply / divide of     *)
(* astropy.nddata, to which the four methods delegate.  It decides the     *)
(* data and the unit of the result and fails on operands it cannot         *)
(* combine; the propagation of two uncertainties is astropy's and is left  *)
(* out (the result's unc field is NoArray).                                *)
(***************************************************************************)
NDArithmetic(op, a, b, compare_wcs) ==
    IF op \in {"add", "subtract"} /\ ~Convertible(b.unit, a.unit)
    THEN [status |-> "error", err |-> "UnitsError", res |-> NoResult]
    ELSE IF ~Broadcastable(a.data, b.data)
    THEN [status |-> "error", err |-> "ValueError", res |-> NoResult]
    ELSE IF compare_wcs = "custom" /\ a.wcs # b.wcs
    THEN [status |-> "error", err |-> "ValueError", res |-> NoResult]
    ELSE [status |-> "ok", err |-> "-",
          res |-> [data |-> IF op \in {"add", "subtract"}
                            THEN MapArrays(op, a.data,
                                     [i \in 1..Len(b.data) |->
                                         ToUnit(b.data[i], b.unit, a.unit)])
                            ELSE MapArrays(op, a.data, b.data),
                   unit |-> CASE op \in {"add", "subtract"} -> BaseUnit(a.unit)
                              [] op = "multiply" -> MulUnit(a.unit, b.unit)
                              [] op = "divide" -> DivUnit(a.unit, b.unit),
                   wcs |-> a.wcs, unc |-> NoArray, mask |-> a.mask,
                   meta |-> a.meta]]

\* "Determine the WCS of the result"
ResultWcsRightFirst(compare_wcs, tmp_wcs_1, tmp_wcs_2) ==
    IF compare_wcs = None THEN None
    ELSE IF Truthy(tmp_wcs_2) THEN tmp_wcs_2 ELSE tmp_wcs_1

ResultWcs(compare_wcs, tmp_wcs_1, tmp_wcs_2) ==
    IF compare_wcs = None THEN None
    ELSE IF Truthy(tmp_wcs_1) THEN tmp_wcs_1 ELSE tmp_wcs_2

\* self.wcs, other.wcs = None, None
ClearWcs(o, s, t) == [o EXCEPT ![s].wcs = None, ![t].wcs = None]

\* self.wcs, other.wcs = tmp_wcs_1, tmp_wcs_2 (other is assigned last)
RestoreWcs(o, s, t, tmp_wcs_1, tmp_wcs_2) ==
    [[o EXCEPT ![s].wcs = tmp_wcs_1] EXCEPT ![t].wcs = tmp_wcs_2]

\* add / subtract / multiply / divide with isinstance(other, CCDData)
FrameArith(op, s, t, compare_wcs) ==
    LET call == [NoCall EXCEPT !.kind = "frame", !.op = op, !.self = s,
                                !.other = t, !.policy = compare_wcs, !.pre = ops]
    IN  IF compare_wcs = None \/ compare_wcs = "first_found"
        THEN LET tmp_wcs_1 == ops[s].wcs
                 tmp_wcs_2 == ops[t].wcs
                 cleared == ClearWcs(ops, s, t)
                 result_wcs == ResultWcs(compare_wcs, tmp_wcs_1, tmp_wcs_2)
                 r == NDArithmetic(op, cleared[s], cleared[t], "first_found")
             IN  IF r.status = "ok"
                 THEN /\ ops' = RestoreWcs(cleared, s, t, tmp_wcs_1, tmp_wcs_2)
                      /\ arith' = [call EXCEPT !.status = "ok",
                                       !.res = [r.res EXCEPT !.wcs = result_wcs]]
                 \* the exception leaves the method before the restore
                 ELSE /\ ops' = cleared
                      /\ arith' = [call EXCEPT !.status = "error", !.err = r.err]
        ELSE IF capable
        THEN LET r == NDArithmetic(op, ops[s], ops[t], compare_wcs)
             IN  /\ ops' = ops
                 /\ arith' = [call EXCEPT !.status = r.status, !.err = r.err,
                                           !.res = r.res]
        ELSE /\ ops' = ops
             /\ arith' = [call EXCEPT !.status = "error", !.err = "ImportError"]

ArithFrame ==
    /\ arith = NoCall
    /\ \E op \in OpNames, s \in OperandIds, t \in OperandIds, p \in Policies :
          FrameArith(op, s, t, p)
    /\ UNCHANGED <<capable, frameVars, ioVars, metaVars>>

(***************************************************************************)
(* Frame (op) scalar: CCDData._ccddata_arithmetic                          *)
(***************************************************************************)
\* the #291 bug: the value is used as it is, in the scalar's own unit
OtherValueUnconverted(op, selfUnit, other) ==
    IF other.type \in {"quantity", "number"}
    THEN [status |-> "ok", err |-> "-", value |-> other.value]
    ELSE [status |-> "error", err |-> "TypeError", value |-> Num(0)]

\* other_value: the number that is combined with self.data
OtherValue(op, selfUnit, other) ==
    IF other.type = "quantity"
    THEN IF op \in {"add", "subtract"} /\ selfUnit # other.unit
         THEN IF Convertible(other.unit, selfUnit)
              THEN [status |-> "ok", err |-> "-",
                    value |-> ToUnit(other.value, other.unit, selfUnit)]
              ELSE [status |-> "error", err |-> "UnitsError", value |-> Num(0)]
         ELSE [status |-> "ok", err |-> "-", value |-> other.value]
    ELSE IF other.type = "number"
    THEN [status |-> "ok", err |-> "-", value |-> other.value]
    ELSE [status |-> "error", err |-> "TypeError", value |-> Num(0)]

\* operation(1 * self.unit, other).unit: astropy adds a Quantity and a plain
\* number only when the Quantity is dimensionless (or the number is zero)
ResultUnit(op, selfUnit, other) ==
    IF op \in {"add", "subtract"}
    THEN IF other.type = "quantity"
         THEN IF Convertible(other.unit, selfUnit)
              THEN [status |-> "ok", err |-> "-", unit |-> BaseUnit(selfUnit)]
              ELSE [status |-> "error", err |-> "UnitsError", unit |-> BaseUnit(None)]
         ELSE IF selfUnit = Dimensionless \/ other.value = Num(0)
              THEN [status |-> "ok", err |-> "-", unit |-> BaseUnit(selfUnit)]
              ELSE [status |-> "error", err |-> "UnitsError", unit |-> BaseUnit(None)]
    ELSE [status |-> "ok", err |-> "-",
          unit |-> IF other.type = "number" THEN BaseUnit(selfUnit)
                   ELSE IF op = "multiply" THEN MulUnit(selfUnit, other.unit)
                   ELSE DivUnit(selfUnit, other.unit)]

ScaleUncertaintyAlways(op) == TRUE

\* the scale_uncertainty argument each of the four methods passes
ScaleUncertainty(op) == op \in {"multiply", "divide"}

\* result_uncertainty
ResultUncertainty(op, unc, other_value, scale_uncertainty) ==
    IF unc # NoArray
    THEN IF scale_uncertainty
         THEN Some(MapScalar(op, unc[1], other_value))
         ELSE Some(unc[1])
    ELSE NoArray

CcddataArithmetic(op, s, other) ==
    LET call == [NoCall EXCEPT !.kind = "scalar", !.op = op, !.self = s,
                                !.scalar = other, !.pre = ops]
        f == ops[s]
        ov == OtherValue(op, f.unit, other)
        ru == ResultUnit(op, f.unit, other)
    IN  /\ ops' = ops
        /\ arith' =
             IF ov.status # "ok"
             THEN [call EXCEPT !.status = "error", !.err = ov.err]
             ELSE IF ru.status # "ok"
             THEN [call EXCEPT !.status = "error", !.err = ru.err]
             ELSE [call EXCEPT !.status = "ok",
                     !.res = [data |-> MapScalar(op, f.data, ov.value),
                              unit |-> ru.unit,
                              wcs |-> f.wcs,
                              unc |-> ResultUncertainty(op, f.unc, ov.value,
                                                        ScaleUncertainty(op)),
                              mask |-> f.mask,
                              meta |-> f.meta]]

ArithScalar ==
    /\ arith = NoCall
    /\ \E op \in OpNames, s \in OperandIds, other \in Scalars :
          CcddataArithmetic(op, s, other)
    /\ UNCHANGED <<capable, frameVars, ioVars, metaVars>>

(***************************************************************************)
(* SpecArith: arithmetic calls, in any order, on the two operand Frames    *)
(***************************************************************************)
\* the variables of the other specifications, at rest
FrameIdle == frames = <<>> /\ uncs = <<>> /\ lastSet = <<>>

IOIdle == ccd = <<>> /\ file = <<>> /\ hduOut = <<>> /\ rd = <<>>

MetaIdle == ins = <<>>

ArithIdle == ops = <<>> /\ capable = FALSE /\ arith = <<>>

\* the caller is done with the result (or the exception) of the last call:
\* the next call starts from the operands as that call left them
ArithDone ==
    /\ arith # NoCall
    /\ arith' = NoCall
    /\ UNCHANGED <<ops, capable, frameVars, ioVars, metaVars>>

ArithNext == ArithFrame \/ ArithScalar \/ ArithDone

ArithStart == ArithInit /\ FrameIdle /\ IOIdle /\ MetaIdle

SpecArith == ArithStart /\ [][ArithNext]_vars

(***************************************************************************)
(* SpecFrame: CCDData.__init__ and the property setters.                   *)
(*                                                                         *)
(* Uncertainty objects live in a heap, uncs: object 1 is a                 *)
(* StdDevUncertainty the caller made and keeps; the other objects are made *)
(* by the uncertainty setter when it wraps a raw array.  A Frame's         *)
(* uncertainty field is an object id, 0 for None.  A wrapped object no     *)
(* Frame refers to is garbage and its slot is free.                        *)
(***************************************************************************)
FrameIds == {1, 2}

CallerUncIds == {1}

WrappedUncIds == {2, 3}

UncIds == CallerUncIds \cup WrappedUncIds

FrameData == {Ramp(n) : n \in MinLen..MaxLen}

FreeUnc == [live |-> FALSE, array |-> <<>>, parent |-> 0]

Unbuilt ==
    [built |-> FALSE, data |-> <<>>, unit |-> None, wcs |-> None, meta |-> "-",
     unc |-> 0]

\* the values a caller passes as unit: None, unit names, and a string that
\* u.Unit cannot parse
UnitArgs == {None, "adu", "bogus"}

ValidUnitNames == ScalarUnits

\* the values a caller passes as meta (or header): None, a mapping, and a
\* value without keys(); what the mapping holds plays no part here
MetaArgs == {None, "dict", "notmapping"}

\* the values a caller passes as uncertainty
UncArgs ==
    {[type |-> "None", id |-> 0, array |-> <<>>],
     [type |-> "other", id |-> 0, array |-> <<>>]}
    \cup {[type |-> "NDUncertainty", id |-> i, array |-> <<>>] : i \in UncIds}
    \cup {[type |-> "ndarray", id |-> 0, array |-> a] : a \in FrameData}

FrameInit ==
    /\ frames = [f \in FrameIds |-> Unbuilt]
    /\ uncs = [i \in UncIds |->
                  IF i \in CallerUncIds
                  THEN [live |-> TRUE, array |-> Ramp(MinLen), parent |-> 0]
                  ELSE FreeUnc]
    /\ lastSet = "-"

\* a wrapped object that no Frame refers to any more is gone
Collect(fr, un) ==
    [i \in UncIds |->
        IF i \in WrappedUncIds /\ \A f \in FrameIds : fr[f].unc # i
        THEN FreeUnc ELSE un[i]]

\* the slot of the object StdDevUncertainty(value) creates for Frame f
NewUncId(f) ==
    CHOOSE i \in WrappedUncIds :
        /\ \A g \in FrameIds \ {f} : frames[g].unc # i
        /\ \A j \in WrappedUncIds :
              (\A g \in FrameIds \ {f} : frames[g].unc # j) => i <= j

\* unit.setter
SetUnitField(fr, value) ==
    IF value # None
    THEN IF value \in ValidUnitNames
         THEN [status |-> "ok", frame |-> [fr EXCEPT !.unit = value]]
         ELSE [status |-> "ValueError", frame |-> fr]
    ELSE [status |-> "ok", frame |-> [fr EXCEPT !.unit = None]]

\* data.setter
SetDataField(fr, value) == [status |-> "ok", frame |-> [fr EXCEPT !.data = value]]

\* wcs.setter
SetWcsField(fr, value) == [status |-> "ok", frame |-> [fr EXCEPT !.wcs = value]]

\* meta.setter (header.setter assigns to meta)
SetMetaField(fr, value) ==
    IF value = None
    THEN [status |-> "ok", frame |-> [fr EXCEPT !.meta = "dict"]]
    ELSE IF value = "dict"
    THEN [status |-> "ok", frame |-> [fr EXCEPT !.meta = value]]
    ELSE [status |-> "TypeError", frame |-> fr]

\* uncertainty.setter on Frame f, whose record so far is fr, in heap un
SetUncertaintyField(f, fr, un, value) ==
    IF value.type # "None"
    THEN IF value.type = "NDUncertainty"
         THEN [status |-> "ok", frame |-> [fr EXCEPT !.unc = value.id],
               heap |-> [un EXCEPT ![value.id].parent = f]]
         ELSE IF value.type = "ndarray"
         THEN IF Len(value.array) # Len(fr.data)
              THEN [status |-> "ValueError", frame |-> fr, heap |-> un]
              ELSE LET n == NewUncId(f)
                   IN  [status |-> "ok", frame |-> [fr EXCEPT !.unc = n],
                        heap |-> [un EXCEPT ![n] = [live |-> TRUE,
                                                    array |-> value.array,
                                                    parent |-> f]]]
         ELSE [status |-> "TypeError", frame |-> fr, heap |-> un]
    ELSE [status |-> "ok", frame |-> [fr EXCEPT !.unc = 0], heap |-> un]

\* CCDData(data, unit=, uncertainty=, wcs=, meta=, header=): the base class
\* assigns each field through the setters above, then the unit is checked
Construct(f, data, unit, uncertainty, wcs, meta, header) ==
    LET meta_kwd == IF meta = "absent" THEN header ELSE meta
        r1 == SetDataField([Unbuilt EXCEPT !.built = TRUE], data)
        r2 == SetUncertaintyField(f, r1.frame, uncs, uncertainty)
        r3 == SetWcsField(r2.frame, wcs)
        r4 == SetMetaField(r3.frame, meta_kwd)
        r5 == SetUnitField(r4.frame, unit)
        status ==
            IF meta # "absent" /\ header # None THEN "ValueError"
            ELSE IF r2.status # "ok" THEN r2.status
            ELSE IF r4.status # "ok" THEN r4.status
            ELSE IF r5.status # "ok" THEN r5.status
            ELSE IF r5.frame.unit = None THEN "ValueError"
            ELSE "ok"
    IN  IF status = "ok"
        THEN /\ frames' = [frames EXCEPT ![f] = r5.frame]
             /\ uncs' = Collect(frames', r2.heap)
             /\ lastSet' = "ok"
        \* the half-built object is dropped; an uncertainty object that was
        \* attached to it keeps the back-reference it was given
        ELSE /\ frames' = frames
             /\ uncs' = uncs
             /\ lastSet' = status

FrameConstruct ==
    /\ \E f \in FrameIds, d \in FrameData, un \in UnitArgs, uc \in UncArgs,
          w \in {None, "RA"}, m \in {"absent"} \cup MetaArgs,
          h \in {None, "dict"} :
            /\ ~frames[f].built
            /\ uc.type = "NDUncertainty" => uncs[uc.id].live
            /\ Construct(f, d, un, uc, w, m, h)
    /\ UNCHANGED <<arithVars, ioVars, metaVars>>

FrameSetUnit ==
    /\ \E f \in FrameIds, value \in UnitArgs :
          /\ frames[f].built
          /\ LET r == SetUnitField(frames[f], value)
             IN  /\ frames' = [frames EXCEPT ![f] = r.frame]
                 /\ lastSet' = r.status
    /\ UNCHANGED <<uncs, arithVars, ioVars, metaVars>>

FrameSetData ==
    /\ \E f \in FrameIds, value \in FrameData :
          /\ frames[f].built
          /\ LET r == SetDataField(frames[f], value)
             IN  /\ frames' = [frames EXCEPT ![f] = r.frame]
                 /\ lastSet' = r.status
    /\ UNCHANGED <<uncs, arithVars, ioVars, metaVars>>

FrameSetWcs ==
    /\ \E f \in FrameIds, value \in {None, "RA"} :
          /\ frames[f].built
          /\ LET r == SetWcsField(frames[f], value)
             IN  /\ frames' = [frames EXCEPT ![f] = r.frame]
                 /\ lastSet' = r.status
    /\ UNCHANGED <<uncs, arithVars, ioVars, metaVars>>

FrameSetMeta ==
    /\ \E f \in FrameIds, value \in MetaArgs :
          /\ frames[f].built
          /\ LET r == SetMetaField(frames[f], value)
             IN  /\ frames' = [frames EXCEPT ![f] = r.frame]
                 /\ lastSet' = r.status
    /\ UNCHANGED <<uncs, arithVars, ioVars, metaVars>>

FrameSetUncertainty ==
    /\ \E f \in FrameIds, value \in UncArgs :
          /\ frames[f].built
          /\ value.type = "NDUncertainty" => uncs[value.id].live
          /\ LET r == SetUncertaintyField(f, frames[f], uncs, value)
             IN  /\ frames' = [frames EXCEPT ![f] = r.frame]
                 /\ uncs' = Collect(frames', r.heap)
                 /\ lastSet' = r.status
    /\ UNCHANGED <<arithVars, ioVars, metaVars>>

FrameNext ==
    \/ FrameConstruct
    \/ FrameSetUnit
    \/ FrameSetData
    \/ FrameSetWcs
    \/ FrameSetMeta
    \/ FrameSetUncertainty

FrameStart == FrameInit /\ ArithIdle /\ IOIdle /\ MetaIdle

SpecFrame == FrameStart /\ [][FrameNext]_vars

\* C3: a Frame that was constructed is never without a unit, whatever is
\* assigned to its fields afterwards.
C3_UnitNeverUnset == \A f \in FrameIds : frames[f].built => frames[f].unit # None

\* C4: whenever a Frame has an uncertainty attached, the uncertainty's array
\* has the shape of the Frame's data.
C4_UncertaintyShape ==
    \A f \in FrameIds :
        (frames[f].built /\ frames[f].unc # 0) =>
            Len(uncs[frames[f].unc].array) = Len(frames[f].data)

(***************************************************************************)
(* FITS headers (astropy.io.fits.Header): a list of cards.  Keywords are   *)
(* case-insensitive and kept in upper case; a keyword may occur on more    *)
(* than one card, and a lookup by keyword finds the first one.             *)
(***************************************************************************)
Card(k, v, c) == [key |-> k, value |-> v, comment |-> c]

\* the upper-case form of the keywords the model draws
KeyUpper(k) ==
    CASE k = "bunit" -> "BUNIT"
      [] k = "subtract_bias" -> "SUBTRACT_BIAS"
      [] k = "subbias" -> "SUBBIAS"
      [] k = "object" -> "OBJECT"
      [] OTHER -> k

\* key in header
HasKey(cards, k) == \E i \in 1..Len(cards) : cards[i].key = KeyUpper(k)

FirstIndex(cards, k) ==
    CHOOSE i \in 1..Len(cards) :
        /\ cards[i].key = KeyUpper(k)
        /\ \A j \in 1..(i - 1) : cards[j].key # KeyUpper(k)

\* header[key]
Lookup(cards, k) == cards[FirstIndex(cards, k)].value

\* header[key] = value: the first card of that keyword is updated and keeps
\* its comment, or a new card is appended
SetValue(cards, k, v) ==
    IF HasKey(cards, k)
    THEN [cards EXCEPT ![FirstIndex(cards, k)].value = v]
    ELSE Append(cards, Card(KeyUpper(k), v, ""))

\* header[key] = (value, comment)
SetCard(cards, k, v, c) ==
    IF HasKey(cards, k)
    THEN [cards EXCEPT ![FirstIndex(cards, k)] = Card(KeyUpper(k), v, c)]
    ELSE Append(cards, Card(KeyUpper(k), v, c))

\* header.extend(other, useblanks=False, update=True)
RECURSIVE ExtendUpdate(_, _)
ExtendUpdate(cards, other) ==
    IF other = <<>> THEN cards
    ELSE ExtendUpdate(SetCard(cards, other[1].key, other[1].value, other[1].comment),
                      Tail(other))

\* header + other: a copy of header to which every card of other is
\* appended (extend with its defaults, unique=False and update=False)
HeaderPlus(cards, other) == cards \o other

(***************************************************************************)
(* Metadata: a FITS Header, or a plain dict (an ordered list of items with *)
(* distinct, case-sensitive keys; comment unused)                          *)
(***************************************************************************)
\* ccdproc.core._short_names: the long keywords autologging writes, and the
\* short keyword that stands for each
ShortNames == [k \in {"subtract_bias"} |-> "subbias"]

ShortNote == "Shortened name for ccdproc command"

DictHas(items, k) == \E i \in 1..Len(items) : items[i].key = k

\* d[key] = value
DictSet(items, k, v) ==
    IF DictHas(items, k)
    THEN [i \in 1..Len(items) |->
            IF items[i].key = k THEN Card(k, v, "") ELSE items[i]]
    ELSE Append(items, Card(k, v, ""))

\* self.meta[key] = value (c = ""), or self.meta[key] = (value, c), which
\* the code does only when self.meta is a Header
MetaSet(meta, k, v, c) ==
    IF meta.kind = "Header"
    THEN [meta EXCEPT !.cards = IF c = "" THEN SetValue(meta.cards, k, v)
                                 ELSE SetCard(meta.cards, k, v, c)]
    ELSE [meta EXCEPT !.cards = DictSet(meta.cards, k, v)]

\* the shortened name is used whatever the container is
InsertShortenedAlways(meta, key, value) ==
    IF key \in DOMAIN ShortNames
    THEN LET short_name == ShortNames[key]
         IN  MetaSet(MetaSet(meta, key, short_name, ShortNote), short_name, value, "")
    ELSE MetaSet(meta, key, value, "")

\* CCDData._insert_in_metadata_fits_safe
InsertInMetadataFitsSafe(meta, key, value) ==
    IF key \in DOMAIN ShortNames /\ meta.kind = "Header"
    THEN LET short_name == ShortNames[key]
         IN  MetaSet(MetaSet(meta, key, short_name, ShortNote), short_name, value, "")
    ELSE MetaSet(meta, key, value, "")

\* for k, v in self.header.items(): dummy_ccd._insert_in_metadata_fits_safe(k, v)
RECURSIVE ReplayItems(_, _)
ReplayItems(meta, items) ==
    IF items = <<>> THEN meta
    ELSE ReplayItems(InsertInMetadataFitsSafe(meta, items[1].key, items[1].value),
                     Tail(items))

(***************************************************************************)
(* to_hdu and the writer                                                   *)
(***************************************************************************)
\* unit.to_string()
UnitToString(u) == IF u = Dimensionless THEN "" ELSE u

\* mask.astype(np.uint8)
BoolToUint8(m) == [i \in 1..Len(m) |-> IF m[i] THEN Num(1) ELSE Num(0)]

\* data.astype(np.bool_)
Uint8ToBool(a) == [i \in 1..Len(a) |-> a[i] # Num(0)]

\* self.wcs.to_header()
WcsToHeader(w) == <<Card("CTYPE1", w, "")>>

Hdu(name, data, header) == [name |-> name, data |-> data, header |-> header]

\* the header the primary HDU is built from shares its cards with self.meta
HeaderAliased(meta) ==
    IF meta.kind = "Header"
    THEN [cards |-> meta.cards, aliased |-> TRUE]
    ELSE [cards |-> ReplayItems([kind |-> "Header", cards |-> <<>>], meta.cards).cards,
          aliased |-> FALSE]

\* header = self.header.copy(), or the header of a dummy CCDData into which
\* every item of self.header is inserted
HeaderForHdu(meta) ==
    IF meta.kind = "Header"
    THEN [cards |-> meta.cards, aliased |-> FALSE]
    ELSE [cards |-> ReplayItems([kind |-> "Header", cards |-> <<>>], meta.cards).cards,
          aliased |-> FALSE]

FlagsRequested(hdu_flags, flags) == hdu_flags # None

\* hdu_flags and self.flags
FlagsUnsupported(hdu_flags, flags) == hdu_flags # None /\ flags # None

\* CCDData.to_hdu: what it returns or raises, and the metadata of the Frame
\* when it is left
ToHdu(f, a) ==
    LET h0 == HeaderForHdu(f.meta)
        h1 == IF f.unit # Dimensionless
              THEN SetValue(h0.cards, "bunit", UnitToString(f.unit))
              ELSE h0.cards
        header == IF Truthy(f.wcs) THEN ExtendUpdate(h1, WcsToHeader(f.wcs)) ELSE h1
        meta == IF h0.aliased THEN [f.meta EXCEPT !.cards = header] ELSE f.meta
        primary == <<Hdu("PRIMARY", Some(f.data), header)>>
        saveMask == a.hdu_mask # None /\ f.mask.type # "None"
        withMask == IF saveMask /\ f.mask.type = "ndarray"
                    THEN Append(primary, Hdu(a.hdu_mask, Some(BoolToUint8(f.mask.array)), <<>>))
                    ELSE primary
        saveUnc == a.hdu_uncertainty # None /\ f.unc.type # "None"
        withUnc == IF saveUnc
                   THEN Append(withMask, Hdu(a.hdu_uncertainty, Some(f.unc.array), <<>>))
                   ELSE withMask
        failed(err) == [status |-> "error", err |-> err, hdus |-> <<>>, meta |-> meta]
    IN  IF saveMask /\ f.mask.type # "ndarray" THEN failed("ValueError")
        ELSE IF saveUnc /\ f.unc.type # "StdDevUncertainty" THEN failed("ValueError")
        ELSE IF saveUnc /\ f.unc.unit # None /\ f.unc.unit # f.unit
        THEN failed("ValueError")
        ELSE IF FlagsUnsupported(a.hdu_flags, f.flags) THEN failed("NotImplementedError")
        ELSE [status |-> "ok", err |-> "-", hdus |-> withUnc, meta |-> meta]

(***************************************************************************)
(* fits_ccddata_reader                                                     *)
(***************************************************************************)
\* u.dimensionless_unscaled passed as an object (true), as opposed to the
\* empty string, which names the same unit and is false
UnitObject == "Unit(dimensionless)"

\* u.Unit(s): "invalid" when s cannot be parsed
ParseUnit(s) ==
    IF s \in {"", UnitObject} THEN Dimensionless
    ELSE IF s \in {"adu", "m", "cm"} THEN s
    ELSE "invalid"

\* s.lower() and s.strip().lower() of the unit literals the model draws
Lower(s) == IF s = "ADU" THEN "adu" ELSE s

StripLower(s) == IF s \in {"ADU", "adu"} THEN "adu" ELSE s

\* bool(x) of a unit argument or a unit string
PyTrue(x) == x # None /\ x # ""

UnsupportedOpenKeywords == {"do_not_scale_image_data", "scale_back"}

HduNames(hdus) == {hdus[i].name : i \in 1..Len(hdus)}

\* hdus[name]
HduNamed(hdus, name) ==
    hdus[CHOOSE i \in 1..Len(hdus) :
            /\ hdus[i].name = name
            /\ \A j \in 1..(i - 1) : hdus[j].name # name]

\* hdus.fileinfo(i)['datSpan'] > 0, i counted from 0
HasPayload(hdus, i) == hdus[i + 1].data # NoArray

\* the index of the HDU the data is taken from: the first one with a payload
\* when hdu is 0 and the primary HDU has no data
DataHdu(hdus, hdu) ==
    IF hdu = 0 /\ hdus[1].data = NoArray
          /\ \E i \in 0..(Len(hdus) - 1) : HasPayload(hdus, i)
    THEN CHOOSE i \in 0..(Len(hdus) - 1) :
            /\ HasPayload(hdus, i)
            /\ \A j \in 0..(i - 1) : ~HasPayload(hdus, j)
    ELSE hdu

\* hdr: the header of the requested HDU, plus that of the HDU found
EffectiveHeader(hdus, hdu) ==
    IF DataHdu(hdus, hdu) # hdu
    THEN HeaderPlus(hdus[hdu + 1].header, hdus[DataHdu(hdus, hdu) + 1].header)
    ELSE hdus[hdu + 1].header

\* fits_unit_string
FitsUnitString(hdr) ==
    IF HasKey(hdr, "bunit")
    THEN IF StripLower(Lookup(hdr, "bunit")) = "adu"
         THEN Lower(Lookup(hdr, "bunit"))
         ELSE Lookup(hdr, "bunit")
    ELSE None

\* use_unit = unit or fits_unit_string
UseUnit(unit, fits_unit_string) ==
    IF PyTrue(unit) THEN unit ELSE fits_unit_string

\* wcs = WCS(hdr); wcs if wcs.wcs.ctype[0] else None
WcsFromHeader(hdr) ==
    IF HasKey(hdr, "CTYPE1") /\ Lookup(hdr, "CTYPE1") # "" THEN Lookup(hdr, "CTYPE1")
    ELSE None

NoFrame ==
    [data |-> <<>>, unit |-> None, mask |-> NoArray, unc |-> NoArray, wcs |-> None,
     meta |-> <<>>]

\* the body of the with statement: the Frame it builds or the error it raises
ReaderBody(hdus, a) ==
    LET failed(err) == [status |-> "error", err |-> err, frame |-> NoFrame]
        uncertainty == IF "UNCERT" \in HduNames(hdus)
                       THEN HduNamed(hdus, "UNCERT").data ELSE NoArray
        mask == IF "MASK" \in HduNames(hdus)
                THEN Some(Uint8ToBool(HduNamed(hdus, "MASK").data[1])) ELSE NoArray
        hdu == DataHdu(hdus, a.hdu)
        hdr == EffectiveHeader(hdus, a.hdu)
        use_unit == UseUnit(a.unit, FitsUnitString(hdr))
        data == IF hdus[hdu + 1].data = NoArray THEN <<>> ELSE hdus[hdu + 1].data[1]
    IN  IF a.hdu >= Len(hdus) THEN failed("IndexError")
        ELSE IF a.hdu_flags \in HduNames(hdus) THEN failed("NotImplementedError")
        \* CCDData(...): the mask must have the shape of the data, and the
        \* unit must be given and be a unit
        ELSE IF mask # NoArray /\ Len(mask[1]) # Len(data) THEN failed("ValueError")
        ELSE IF use_unit = None THEN failed("ValueError")
        ELSE IF ParseUnit(use_unit) = "invalid" THEN failed("ValueError")
        ELSE [status |-> "ok", err |-> "-",
              frame |-> [data |-> data, unit |-> ParseUnit(use_unit), mask |-> mask,
                         unc |-> uncertainty, wcs |-> WcsFromHeader(hdr),
                         meta |-> hdr]]

WithExitOnSuccessOnly(status) == IF status = "ok" THEN "closed" ELSE "open"

\* leaving `with fits.open(...) as hdus`, by return or by exception
WithExit(status) == "closed"

ReaderIdle ==
    [pc |-> "idle",
     args |-> [hdu |-> 0, unit |-> None, hdu_flags |-> None, kwd |-> "none"],
     handle |-> "none", err |-> "-", frame |-> NoFrame]

NoHduOut ==
    [op |-> "-",
     args |-> [hdu_mask |-> "MASK", hdu_uncertainty |-> "UNCERT", hdu_flags |-> None],
     status |-> "-", err |-> "-", hdus |-> <<>>, pre |-> <<>>]

NoFile == [exists |-> FALSE, origin |-> "-", wargs |-> NoHduOut.args, hdus |-> <<>>]

\* the call, up to fits.open: the unsupported keywords are refused first
ReaderCall(argset) ==
    /\ rd.pc = "idle"
    /\ hduOut = NoHduOut
    /\ \E a \in argset :
          rd' = IF a.kwd \in UnsupportedOpenKeywords
                THEN [ReaderIdle EXCEPT !.pc = "raised", !.args = a, !.err = "TypeError"]
                ELSE IF ~file.exists
                THEN [ReaderIdle EXCEPT !.pc = "raised", !.args = a, !.err = "IOError"]
                ELSE [ReaderIdle EXCEPT !.pc = "open", !.args = a, !.handle = "open"]
    /\ UNCHANGED <<ccd, file, hduOut, arithVars, frameVars, metaVars>>

\* the with block runs, and is left
ReaderRun ==
    /\ rd.pc = "open"
    /\ LET r == ReaderBody(file.hdus, rd.args)
       IN  rd' = [rd EXCEPT !.pc = IF r.status = "ok" THEN "returned" ELSE "raised",
                             !.err = r.err, !.frame = r.frame,
                             !.handle = WithExit(r.status)]
    /\ UNCHANGED <<ccd, file, hduOut, arithVars, frameVars, metaVars>>

\* the caller is done with what the reader returned or raised
ReaderDone ==
    /\ rd.pc \in {"returned", "raised"}
    /\ rd' = ReaderIdle
    /\ UNCHANGED <<ccd, file, hduOut, arithVars, frameVars, metaVars>>

(***************************************************************************)
(* SpecIO: a Frame is serialized (to_hdu), written, and read back          *)
(* SpecRead: the reader, with every argument, on files of any origin       *)
(***************************************************************************)
WriteArgs ==
    [hdu_mask : {"MASK", None}, hdu_uncertainty : {"UNCERT", None},
     hdu_flags : {None, "FLAGS"}]

DefaultWriteArgs ==
    [hdu_mask |-> "MASK", hdu_uncertainty |-> "UNCERT", hdu_flags |-> None]

AllReadArgs ==
    [hdu : {0, 1}, unit : {None, "", "m", UnitObject}, hdu_flags : {None, "FLAGS"},
     kwd : {"none"} \cup UnsupportedOpenKeywords]

DefaultReadArgs == [hdu |-> 0, unit |-> None, hdu_flags |-> None, kwd |-> "none"]

\* reading back what was written: the defaults, with and without flags
ReadBackArgs == {[DefaultReadArgs EXCEPT !.hdu_flags = f] : f \in {None, "FLAGS"}}

\* the metadata the serialized Frames are drawn from (all of it FITS-safe)
IOMetas ==
    {[kind |-> "Header", cards |-> <<>>],
     [kind |-> "Header", cards |-> <<Card("OBJECT", "m31", "target")>>],
     [kind |-> "Header", cards |-> <<Card("BUNIT", "m", "")>>],
     [kind |-> "Header", cards |-> <<Card("CTYPE1", "DEC", ""), Card("OBJECT", "m31", "")>>],
     [kind |-> "dict", cards |-> <<Card("OBJECT", "m31", "")>>],
     [kind |-> "dict", cards |-> <<Card("subtract_bias", "ccd=<CCDData>", "")>>]}

IOData == Ramp(MinLen)

\* the array <<1, 1, ..., 1>> of length n
Ones(n) == [i \in 1..n |-> Num(1)]

IOMasks ==
    {[type |-> "None", array |-> <<>>],
     [type |-> "ndarray", array |-> [i \in 1..MinLen |-> i = 1]],
     [type |-> "other", array |-> <<>>]}

\* no uncertainty; a StdDevUncertainty without a unit of its own, or with
\* the unit m; an uncertainty of another class
IOUncs ==
    {[type |-> "None", array |-> <<>>, unit |-> None],
     [type |-> "StdDevUncertainty", array |-> Ones(MinLen), unit |-> None],
     [type |-> "StdDevUncertainty", array |-> Ones(MinLen), unit |-> "m"],
     [type |-> "OtherUncertainty", array |-> Ones(MinLen), unit |-> None]}

IOFrames ==
    [data : {IOData}, unit : FrameUnits, mask : IOMasks, unc : IOUncs,
     flags : {None, "FlagCollection"}, wcs : {None, "RA"}, meta : IOMetas]

DefaultFrame ==
    [data |-> IOData, unit |-> "adu", mask |-> [type |-> "None", array |-> <<>>],
     unc |-> [type |-> "None", array |-> <<>>, unit |-> None], flags |-> None,
     wcs |-> None, meta |-> [kind |-> "Header", cards |-> <<>>]]

\* files that some other program wrote
BunitHeader(lit) == IF lit = None THEN <<>> ELSE <<Card("BUNIT", lit, "")>>

ForeignHdus ==
    {<<Hdu("PRIMARY", Some(IOData), BunitHeader(lit))>> :
        lit \in {None, "adu", "ADU", "m", "bogus"}}
    \cup
    {<<Hdu("PRIMARY", Some(IOData), BunitHeader("m") \o <<Card("CTYPE1", "RA", "")>>),
       Hdu("MASK", Some(<<Num(1)>> \o [i \in 1..(MinLen - 1) |-> Num(0)]), <<>>),
       Hdu("UNCERT", Some(Ones(MinLen)), <<>>),
       Hdu("FLAGS", Some(Ones(MinLen)), <<>>)>>,
     <<Hdu("PRIMARY", Some(IOData), BunitHeader("adu")),
       Hdu("MASK", Some([i \in 1..(MinLen + 1) |-> Num(0)]), <<>>)>>}
    \cup
    {<<Hdu("PRIMARY", NoArray, <<Card("OBJECT", "primary", "")>> \o BunitHeader(lit)),
       Hdu("SCI", Some(IOData),
           <<Card("OBJECT", "sci", ""), Card("BUNIT", "m", ""), Card("FILTER", "V", "")>>)>> :
        lit \in {None, "adu"}}

ForeignFiles ==
    {[exists |-> TRUE, origin |-> "foreign", wargs |-> NoHduOut.args, hdus |-> h] :
        h \in ForeignHdus}

IOInit ==
    /\ \/ ccd \in IOFrames /\ file = NoFile
       \/ ccd = DefaultFrame /\ file \in ForeignFiles
    /\ hduOut = NoHduOut
    /\ rd = ReaderIdle

ReadInit ==
    /\ ccd = DefaultFrame
    /\ file \in ForeignFiles \cup {NoFile}
    /\ hduOut = NoHduOut
    /\ rd = ReaderIdle

\* ccd.to_hdu(...)
IOToHdu ==
    /\ rd.pc = "idle"
    /\ hduOut = NoHduOut
    /\ \E a \in WriteArgs :
          LET r == ToHdu(ccd, a)
          IN  /\ hduOut' = [op |-> "to_hdu", args |-> a, status |-> r.status,
                            err |-> r.err, hdus |-> r.hdus, pre |-> ccd]
              /\ ccd' = [ccd EXCEPT !.meta = r.meta]
    /\ UNCHANGED <<file, rd, arithVars, frameVars, metaVars>>

\* fits_ccddata_writer(ccd, filename, ...): to_hdu, then the list is written
IOWrite ==
    /\ rd.pc = "idle"
    /\ hduOut = NoHduOut
    /\ \E a \in WriteArgs :
          LET r == ToHdu(ccd, a)
          IN  /\ hduOut' = [op |-> "write", args |-> a, status |-> r.status,
                            err |-> r.err, hdus |-> r.hdus, pre |-> ccd]
              /\ ccd' = [ccd EXCEPT !.meta = r.meta]
              /\ file' = IF r.status = "ok"
                         THEN [exists |-> TRUE, origin |-> "written", wargs |-> a,
                               hdus |-> r.hdus]
                         ELSE file
    /\ UNCHANGED <<rd, arithVars, frameVars, metaVars>>

\* the caller is done with what to_hdu or the writer returned or raised
IOHduDone ==
    /\ hduOut # NoHduOut
    /\ hduOut' = NoHduOut
    /\ UNCHANGED <<ccd, file, rd, arithVars, frameVars, metaVars>>

IOReaderCall == ReaderCall(ReadBackArgs)

ReadReaderCall == ReaderCall(AllReadArgs)

IONext == IOToHdu \/ IOWrite \/ IOHduDone \/ IOReaderCall \/ ReaderRun \/ ReaderDone

ReadNext == ReadReaderCall \/ ReaderRun \/ ReaderDone

IOStart == IOInit /\ ArithIdle /\ FrameIdle /\ MetaIdle

ReadStart == ReadInit /\ ArithIdle /\ FrameIdle /\ MetaIdle

SpecIO == IOStart /\ [][IONext]_vars

SpecRead == ReadStart /\ [][ReadNext]_vars

\* the call the state records
FrameCall == arith.kind = "frame" /\ arith.policy \in {None, "first_found"}

ScalarCall == arith.kind = "scalar"

\* C1: after add, subtract, multiply or divide of two Frames under policy
\* None or 'first_found', both operands' coordinate mappings are what they
\* were before the call, whether the call returned a result or raised.
C1_OperandWcsRestored ==
    FrameCall =>
        /\ ops[arith.self].wcs = arith.pre[arith.self].wcs
        /\ ops[arith.other].wcs = arith.pre[arith.other].wcs

\* C2: the result of a Frame-Frame operation has no coordinate mapping under
\* policy None; under 'first_found' it has the left operand's mapping as it
\* was before the call when that is present, and otherwise the right
\* operand's (none when neither has one).
C2_ResultWcsPolicy ==
    (FrameCall /\ arith.status = "ok") =>
        LET left == arith.pre[arith.self].wcs
            right == arith.pre[arith.other].wcs
        IN  /\ arith.policy = None => arith.res.wcs = None
            /\ (arith.policy = "first_found" /\ left # None) => arith.res.wcs = left
            /\ (arith.policy = "first_found" /\ left = None) => arith.res.wcs = right

\* a 'first_found' call whose result took the right operand's mapping
C2_Witness ==
    /\ FrameCall /\ arith.status = "ok" /\ arith.policy = "first_found"
    /\ arith.pre[arith.self].wcs = None
    /\ arith.pre[arith.other].wcs # None
    /\ arith.res.wcs = arith.pre[arith.other].wcs

\* C7: add / subtract of a Frame and a unit-bearing scalar of a different
\* unit: when the scalar's unit converts to the Frame's, the result data is
\* the operator applied to self.data and the converted value and the result
\* unit is the Frame's ([1,2,3] m + 100 cm = [2,3,4] m); when it does not
\* convert, the call fails and returns no Frame.
C7_ConvertedScalar ==
    LET f == arith.pre[arith.self]
        q == arith.scalar
    IN  (ScalarCall /\ arith.op \in {"add", "subtract"} /\ q.type = "quantity"
            /\ q.unit # f.unit) =>
            IF Convertible(q.unit, f.unit)
            THEN /\ arith.status = "ok"
                 /\ arith.res.unit = BaseUnit(f.unit)
                 /\ Len(arith.res.data) = Len(f.data)
                 /\ \A i \in 1..Len(f.data) :
                       arith.res.data[i] =
                           ApplyOp(arith.op, f.data[i],
                                   Rat(q.value[1] * UnitScale[q.unit],
                                       q.value[2] * UnitScale[f.unit]))
                 /\ (arith.op = "add" /\ f.data = <<Num(1), Num(2), Num(3)>>
                        /\ f.unit = "m" /\ q.value = Num(100) /\ q.unit = "cm")
                      => arith.res.data = <<Num(2), Num(3), Num(4)>>
            ELSE arith.status = "error" /\ arith.res = NoResult

\* [1,2,3] m + 100 cm has returned [2,3,4] m
C7_Witness ==
    /\ ScalarCall /\ arith.op = "add" /\ arith.status = "ok"
    /\ arith.pre[arith.self].unit = "m"
    /\ arith.scalar = [type |-> "quantity", value |-> Num(100), unit |-> "cm"]
    /\ arith.res.data = <<Num(2), Num(3), Num(4)>>
    /\ arith.res.unit = BaseUnit("m")

HduCall == hduOut.op \in {"to_hdu", "write"}

ReaderEnded == rd.pc \in {"returned", "raised"}

C6_RoundTrip ==
    (/\ ReaderEnded /\ rd.args = DefaultReadArgs
     /\ file.origin = "written" /\ file.wargs = DefaultWriteArgs
     /\ ccd.mask.type = "ndarray" /\ ccd.unc.type = "StdDevUncertainty") =>
        /\ rd.pc = "returned"
        /\ rd.frame.data = ccd.data
        /\ rd.frame.mask = Some(ccd.mask.array)
        /\ rd.frame.unit = ccd.unit
        /\ rd.frame.unc = Some(ccd.unc.array)

\* the unit literal the effective header records, None when it records none
RecordedUnit ==
    LET a == rd.args
        d == IF a.hdu = 0 /\ file.hdus[1].data = NoArray THEN 2 ELSE a.hdu + 1
        both == IF d = a.hdu + 1 THEN file.hdus[d].header
                ELSE file.hdus[a.hdu + 1].header \o file.hdus[d].header
        at == {i \in 1..Len(both) : both[i].key = "BUNIT"}
    IN  IF at = {} THEN None
        ELSE both[CHOOSE i \in at : \A j \in at : i <= j].value

\* the reader ran its body on a file that raises nothing but for the unit:
\* the index exists, no flags are asked for, the mask has the data's shape
\* and the recorded unit, if any, is a unit
PlainRead ==
    /\ ReaderEnded /\ rd.handle = "closed"
    /\ rd.args.hdu < Len(file.hdus)
    /\ rd.args.hdu_flags = None
    /\ \A i \in 1..Len(file.hdus) :
          file.hdus[i].name = "MASK" => Len(file.hdus[i].data[1]) = MinLen
    /\ RecordedUnit # "bogus"

\* C9: the Frame the reader returns has the unit argument when one is given,
\* whatever the file records; without an argument it has the recorded unit,
\* 'ADU' read as 'adu'; with neither the read fails.
C9_UnitResolution ==
    PlainRead =>
        /\ rd.args.unit # None =>
              rd.pc = "returned" /\ rd.frame.unit = ParseUnit(rd.args.unit)
        /\ (rd.args.unit = None /\ RecordedUnit # None) =>
              /\ rd.pc = "returned"
              /\ rd.frame.unit = IF RecordedUnit \in {"adu", "ADU"} THEN "adu"
                                 ELSE RecordedUnit
        /\ (rd.args.unit = None /\ RecordedUnit = None) => rd.pc = "raised"

\* C10: when a reader call has returned or raised, the file handle it opened
\* is closed; a call refused for an unsupported open keyword never opened one.
C10_HandleReleased ==
    /\ ReaderEnded => rd.handle # "open"
    /\ (ReaderEnded /\ rd.args.kwd \in UnsupportedOpenKeywords) =>
          rd.pc = "raised" /\ rd.handle = "none"
    /\ rd.handle = "open" => rd.pc = "open"

\* the read failed for want of a unit, after the file was opened
C10_Witness ==
    /\ rd.pc = "raised" /\ rd.err = "ValueError" /\ rd.handle = "closed"
    /\ rd.args.unit = None /\ RecordedUnit = None

(***************************************************************************)
(* SpecMeta: _insert_in_metadata_fits_safe, called any number of times on  *)
(* the metadata of one Frame                                               *)
(***************************************************************************)
InsertKeys == {"subtract_bias", "subbias", "OBJECT", "object"}

InsertValues == {"v1", "v2"}

\* the metadata the Frame starts with
MetaStarts ==
    {[kind |-> "Header", cards |-> <<>>],
     [kind |-> "Header", cards |-> <<Card("OBJECT", "m31", "target")>>],
     [kind |-> "Header", cards |-> <<Card("SUBBIAS", "old", "")>>],
     [kind |-> "dict", cards |-> <<>>],
     [kind |-> "dict", cards |-> <<Card("object", "m31", "")>>],
     [kind |-> "dict", cards |-> <<Card("subtract_bias", "old", "")>>]}

NoInsert == [key |-> "-", value |-> "-", pre |-> [kind |-> "-", cards |-> <<>>]]

MetaInit ==
    /\ ccd \in {[DefaultFrame EXCEPT !.meta = m] : m \in MetaStarts}
    /\ file = <<>> /\ hduOut = <<>> /\ rd = <<>>
    /\ ins = NoInsert

\* ccd._insert_in_metadata_fits_safe(key, value)
MetaInsert ==
    /\ \E key \in InsertKeys, value \in InsertValues :
          /\ ccd' = [ccd EXCEPT !.meta = InsertInMetadataFitsSafe(ccd.meta, key, value)]
          /\ ins' = [key |-> key, value |-> value, pre |-> ccd.meta]
    /\ UNCHANGED <<file, hduOut, rd, arithVars, frameVars>>

MetaNext == MetaInsert

MetaStart == MetaInit /\ ArithIdle /\ FrameIdle

SpecMeta == MetaStart /\ [][MetaNext]_vars

\* the key under which a container keeps k, the keys it holds, and meta[k]
StoredKey(meta, k) == IF meta.kind = "Header" THEN KeyUpper(k) ELSE k

MetaKeys(meta) == {meta.cards[i].key : i \in 1..Len(meta.cards)}

MetaCard(meta, k) ==
    meta.cards[CHOOSE i \in 1..Len(meta.cards) :
                  /\ meta.cards[i].key = StoredKey(meta, k)
                  /\ \A j \in 1..(i - 1) : meta.cards[j].key # StoredKey(meta, k)]

\* C11: after _insert_in_metadata_fits_safe(key, value), when key is a long
\* autolog key and the metadata is a Header, the key's card holds the short
\* alias with the note as its comment and the alias looks up to value; in
\* every other case the key looks up to value, no other key is added and
\* every other key keeps its value.
C11_KeySafety ==
    ins # NoInsert =>
        LET pre == ins.pre
            post == ccd.meta
            key == ins.key
        IN  IF key \in DOMAIN ShortNames /\ pre.kind = "Header"
            THEN /\ MetaCard(post, key).value = ShortNames[key]
                 /\ MetaCard(post, key).comment = ShortNote
                 /\ MetaCard(post, ShortNames[key]).value = ins.value
            ELSE /\ StoredKey(post, key) \in MetaKeys(post)
                 /\ MetaCard(post, key).value = ins.value
                 /\ MetaKeys(post) = MetaKeys(pre) \cup {StoredKey(pre, key)}
                 /\ \A k \in MetaKeys(pre) \ {StoredKey(pre, key)} :
                       MetaCard(post, k) = MetaCard(pre, k)

\* a long key was inserted into a Header that already held a card of the
\* alias, and the alias now looks up to the inserted value
C11_Witness ==
    /\ ins.key = "subtract_bias" /\ ins.pre.kind = "Header"
    /\ "SUBBIAS" \in MetaKeys(ins.pre)
    /\ MetaCard(ccd.meta, "subbias").value = ins.value

\* the keywords of a header
HeaderKeys(cards) == {cards[i].key : i \in 1..Len(cards)}

\* the first record of the file, in file order, that has a payload
FirstPayload ==
    CHOOSE i \in 1..Len(file.hdus) :
        /\ file.hdus[i].data # NoArray
        /\ \A j \in 1..(i - 1) : file.hdus[j].data = NoArray

\* C12: a read of hdu 0 from a file whose record 0 has no data returns the
\* data of the first record with a payload, and metadata in which every key
\* of that record looks up to that record's value and every key of record 0
\* alone to record 0's value; any other read returns the data and the header
\* of the requested record.
C12_FallbackMerge ==
    (rd.pc = "returned") =>
        LET requested == file.hdus[rd.args.hdu + 1]
        IN  IF rd.args.hdu = 0 /\ requested.data = NoArray
            THEN LET selected == file.hdus[FirstPayload]
                 IN  /\ rd.frame.data = selected.data[1]
                     /\ \A k \in HeaderKeys(selected.header) :
                           Lookup(rd.frame.meta, k) = Lookup(selected.header, k)
                     /\ \A k \in HeaderKeys(requested.header) \ HeaderKeys(selected.header) :
                           Lookup(rd.frame.meta, k) = Lookup(requested.header, k)
                     /\ HeaderKeys(rd.frame.meta)
                           = HeaderKeys(requested.header) \cup HeaderKeys(selected.header)
            ELSE /\ rd.frame.data = requested.data[1]
                 /\ rd.frame.meta = requested.header

\* C13: the uncertainty object attached to a Frame names that Frame as its
\* parent, after any sequence of constructions and assignments on the Frames.
C13_BackReference ==
    \A f \in FrameIds :
        (frames[f].built /\ frames[f].unc # 0) => uncs[frames[f].unc].parent = f

\* C14: when to_hdu (or the writer, which calls it) has returned or raised,
\* the Frame is what it was before the call: its metadata holds the same
\* cards or items, and data, unit, mask, uncertainty, flags and wcs are the
\* same; the unit and the wcs keywords are in the primary HDU's header only.
C14_ToHduLeavesFrame ==
    HduCall =>
        /\ ccd = hduOut.pre
        /\ hduOut.status = "ok" =>
              LET header == hduOut.hdus[1].header
              IN  /\ ccd.unit # Dimensionless =>
                        HasKey(header, "BUNIT") /\ Lookup(header, "BUNIT") = ccd.unit
                  /\ ccd.wcs # None =>
                        \A i \in 1..Len(WcsToHeader(ccd.wcs)) :
                            Lookup(header, WcsToHeader(ccd.wcs)[i].key)
                                = WcsToHeader(ccd.wcs)[i].value

\* to_hdu returned for a Frame with a Header, a unit and a wcs: the primary
\* HDU's header has the unit and wcs keywords, the Frame's Header has not
C14_Witness ==
    /\ hduOut.op = "to_hdu" /\ hduOut.status = "ok"
    /\ hduOut.pre.meta.kind = "Header"
    /\ hduOut.pre.unit = "adu" /\ hduOut.pre.wcs # None
    /\ HasKey(hduOut.hdus[1].header, "BUNIT")
    /\ ~HasKey(ccd.meta.cards, "BUNIT")
    /\ \E i \in 1..Len(WcsToHeader(ccd.wcs)) :
          ~HasKey(ccd.meta.cards, WcsToHeader(ccd.wcs)[i].key)

====
